---------------------------- MODULE Spec2Model ----------------------------
(***************************************************************************)
(* Model of libs/subliminal_patch/providers/opensubtitlescom.py:           *)
(* the OpenSubtitlesComSubtitle record with its get_matches scoring, and   *)
(* the OpenSubtitlesComProvider (initialize / terminate / login /          *)
(* search_titles / query / download_subtitle).                             *)
(*                                                                         *)
(* Python values.  An attribute that may be None is an option: None is the *)
(* empty set and a present value x is the singleton {x}.  Python's == on   *)
(* two such attributes is equality of the two options, so that             *)
(* None == None is true and None == 2021 is false, as in Python.           *)
(***************************************************************************)
EXTENDS Integers, Sequences, FiniteSets, TLC

VARIABLES
    token,      \* self.token: None or the cached bearer token
    headers,    \* self.session.headers: a function from header names to values
    closed,     \* whether self.session.close() has been called
    use_hash,   \* self.use_hash
    hash,       \* self.hash
    subtitles,  \* the subtitle records the caller holds (built by query or directly)
    last        \* the last call: its operation, arguments, outcome and HTTP requests

vars == <<token, headers, closed, use_hash, hash, subtitles, last>>

(***************************************************************************)
(* Bounds of the model.                                                    *)
(***************************************************************************)
MaxResults == 2     \* longest 'data' array of a search response
MaxItems == 2       \* longest 'data' array of a find response
MaxBody == 2        \* longest downloaded body, in bytes

(***************************************************************************)
(* Python values                                                           *)
(***************************************************************************)
None == {}
Some(x) == {x}
Get(o) == CHOOSE x \in o : TRUE

\* Truthiness of an optional string (None and '' are falsy).
TruthyStr(o) == o /= None /\ o /= Some("")
\* Truthiness of an optional integer (None and 0 are falsy).
TruthyInt(o) == o /= None /\ o /= Some(0)

NoException == "none"

\* The sequences over S of length at most n.
SeqUpTo(S, n) == UNION {[1..k -> S] : k \in 0..n}

(***************************************************************************)
(* Videos supplied by the caller (subliminal Episode / Movie).             *)
(***************************************************************************)
Years == {None, Some(2020), Some(2021)}
Numbers == {None, Some(1), Some(2)}

Episode(series, year, season, episode, rel) ==
    [kind |-> "episode", series |-> Some(series), title |-> None, year |-> year,
     season |-> season, episode |-> episode,
     release_group |-> rel.release_group, resolution |-> rel.resolution,
     source |-> rel.source, hashes |-> rel.hashes]

Movie(title, year, rel) ==
    [kind |-> "movie", series |-> None, title |-> Some(title), year |-> year,
     season |-> None, episode |-> None,
     release_group |-> rel.release_group, resolution |-> rel.resolution,
     source |-> rel.source, hashes |-> rel.hashes]

\* Release attributes of a video: none known, or all known.
NoRelease == [release_group |-> None, resolution |-> None, source |-> None, hashes |-> None]
FullRelease ==
    [release_group |-> Some("grp"), resolution |-> Some("720p"), source |-> Some("web"),
     hashes |-> Some("h1")]
VideoReleases == {NoRelease, FullRelease}

IsEpisode(video) == video.kind = "episode"
IsMovie(video) == video.kind = "movie"

(***************************************************************************)
(* Subtitle record                                                         *)
(***************************************************************************)
\* A release string is modelled by the set of lower-case words it contains
\* (among "grp", "720p", "web" and "2021"); the empty string is the empty
\* set, and 'w in releases' is membership.

\* OpenSubtitlesComSubtitle.__init__
OpenSubtitlesComSubtitle(language, hearing_impaired, hash_, page_link, file_id, releases, uploader, title, year, season, episode) ==
    [title |-> title, year |-> year, season |-> season, episode |-> episode,
     releases |-> releases, release_info |-> releases, language |-> language,
     hearing_impaired |-> hearing_impaired, file_id |-> file_id,
     page_link |-> page_link, download_link |-> None, uploader |-> uploader,
     matches |-> None, hash |-> hash_, encoding |-> "utf-8", content |-> None]

\* guessit(releases): the structured fields guessed out of the release string.
Guessit(releases) ==
    [screen_size |-> IF "720p" \in releases THEN Some("720p") ELSE None,
     year |-> IF "2021" \in releases THEN Some(2021) ELSE None]

\* A tag that is added when its check passes.
Tag(check, t) == IF check THEN {t} ELSE {}

\* guess_matches(video, guess): tags inferred from the guessed fields.
GuessMatches(video, guess) ==
    Tag(TruthyStr(video.resolution) /\ guess.screen_size = video.resolution, "resolution")
    \cup Tag(TruthyInt(video.year) /\ guess.year = video.year, "year")

\* 'word in releases' for an optional word of the video, guarded as in the
\* code by the truthiness of both sides.  sanitize_release_group,
\* get_equivalent_release_groups and lower() keep a lower-case word as it is.
InReleases(word, releases) == TruthyStr(word) /\ releases /= {} /\ Get(word) \in releases

\* The checks common to episodes and movies (get_matches, lines 72-86).
CommonMatchTags(self, video) ==
    Tag(InReleases(video.release_group, self.releases), "release_group")
    \cup Tag(InReleases(video.resolution, self.releases), "resolution")
    \cup Tag(InReleases(video.source, self.releases), "source")
    \cup GuessMatches(video, Guessit(self.releases))

\* GetMatchTags with every year/season/episode check guarded by the presence
\* of the video's field, as the other checks are.
GetMatchTagsGuarded(self, video) ==
    (IF IsEpisode(video)
       THEN {"series"}
            \cup Tag(video.year /= None /\ video.year = self.year, "year")
            \cup Tag(video.season /= None /\ video.season = self.season, "season")
            \cup Tag(video.episode /= None /\ video.episode = self.episode, "episode")
       ELSE IF IsMovie(video)
       THEN {"title"} \cup Tag(video.year /= None /\ video.year = self.year, "year")
       ELSE {})
    \cup CommonMatchTags(self, video)

\* OpenSubtitlesComSubtitle.get_matches: the set of tags computed for video.
GetMatchTags(self, video) ==
    (IF IsEpisode(video)
       THEN {"series"}
            \cup Tag(video.year = self.year, "year")
            \cup Tag(video.season = self.season, "season")
            \cup Tag(video.episode = self.episode, "episode")
       ELSE IF IsMovie(video)
       THEN {"title"} \cup Tag(video.year = self.year, "year")
       ELSE {})
    \cup CommonMatchTags(self, video)

\* get_matches stores the computed set on the record (self.matches = matches).
ScoredSubtitle(self, video) == [self EXCEPT !.matches = Some(GetMatchTags(self, video))]

(***************************************************************************)
(* HTTP                                                                    *)
(***************************************************************************)
UserAgent == "Sub-Zero/2"

\* The Authorization header a request of the session carries: the session's
\* header, and nothing when the key is absent or its value is None.
SentAuthorization(h) == IF "Authorization" \in DOMAIN h THEN h["Authorization"] ELSE None

\* A request issued through self.session.
Request(method, url, h) == [method |-> method, url |-> url, auth |-> SentAuthorization(h)]

\* Response.raise_for_status: raises HTTPError on an error status (4xx and
\* 5xx); the statuses of the model are 200, 204, 401, 404 and 500.
RaisesForStatus(status) == status >= 400 /\ status < 600

\* What a call did: the exception it raised (NoException when it returned),
\* the value it returned, and the requests it issued.
Call(op, args, raised, ret, reqs) ==
    [op |-> op, made |-> TRUE, args |-> args, raised |-> raised, ret |-> ret, reqs |-> reqs]

\* The values a call returns.
RetNone == [none |-> TRUE]
RetBool(b) == [bool |-> b]
RetId(id) == [id |-> id]
RetList(l) == [list |-> l]

\* A call that has been set up with its arguments and not made yet.
Pending(op, args) ==
    [op |-> op, made |-> FALSE, args |-> args, raised |-> NoException, ret |-> RetNone, reqs |-> <<>>]

(***************************************************************************)
(* OpenSubtitlesComProvider.__init__, with both credentials given          *)
(***************************************************************************)
InitialHeaders == [h \in {"User-Agent"} |-> Some(UserAgent)]

Constructed ==
    /\ token = None
    /\ headers = InitialHeaders
    /\ closed = FALSE
    /\ use_hash \in BOOLEAN
    /\ hash = None
    /\ subtitles = <<>>

(***************************************************************************)
(* login                                                                   *)
(***************************************************************************)
\* The answer to POST login: a network-level failure, or a response with a
\* status and a body that is valid JSON or not and holds a token or not.
LoginFailure == [failed |-> TRUE, status |-> 0, valid |-> FALSE, token |-> None]
LoginResponse(status, valid, tok) ==
    [failed |-> FALSE, status |-> status, valid |-> valid, token |-> tok]

\* LoginTry with the token of the body cached whatever the status.
LoginTryAnyStatus(resp, tok) ==
    IF resp.failed
      THEN [token |-> tok, raised |-> "UnboundLocalError", ret |-> RetNone]
    ELSE IF resp.valid /\ resp.token /= None
      THEN [token |-> resp.token, raised |-> NoException, ret |-> RetBool(TRUE)]
    ELSE [token |-> tok, raised |-> "ProviderError", ret |-> RetNone]

\* The try / except / else of login, before its finally clause runs:
\* the token, the exception in flight and the pending return value.
LoginTry(resp, tok) ==
    IF resp.failed
      \* the handler formats r.status_code, and r was never bound
      THEN [token |-> tok, raised |-> "UnboundLocalError", ret |-> RetNone]
    ELSE IF resp.status = 200
      THEN IF ~resp.valid
             THEN [token |-> tok, raised |-> "ProviderError", ret |-> RetNone]
           ELSE IF resp.token = None
             THEN [token |-> tok, raised |-> "KeyError", ret |-> RetNone]
           ELSE [token |-> resp.token, raised |-> NoException, ret |-> RetBool(TRUE)]
    ELSE IF resp.status = 401
      THEN [token |-> tok, raised |-> "AuthenticationError", ret |-> RetNone]
    ELSE [token |-> tok, raised |-> "ProviderError", ret |-> RetNone]

\* 'finally: return False': a return in a finally clause discards the
\* exception in flight and replaces the pending return value.
LoginOutcome(resp, tok) ==
    [LoginTry(resp, tok) EXCEPT !.raised = NoException, !.ret = RetBool(FALSE)]

Login(resp) ==
    LET o == LoginOutcome(resp, token) IN
    /\ token' = o.token
    /\ last' = Call("login", [response |-> resp], o.raised, o.ret,
                    <<Request("POST", "login", headers)>>)
    /\ UNCHANGED <<headers, closed, use_hash, hash, subtitles>>

(***************************************************************************)
(* initialize / terminate                                                  *)
(***************************************************************************)
\* A guard that never finds a token cached.
TokenNeverCached(tok) == FALSE

\* The guard of initialize: 'if self.token'.
TokenCached(tok) == TruthyStr(tok)

\* session.headers.update({'Authorization': self.token})
WithAuthorization(h, tok) ==
    [k \in DOMAIN h \cup {"Authorization"} |-> IF k = "Authorization" THEN tok ELSE h[k]]

Initialize(resp) ==
    IF TokenCached(token)
      THEN /\ last' = Call("initialize", [response |-> resp], NoException, RetBool(TRUE), <<>>)
           /\ UNCHANGED <<token, headers, closed, use_hash, hash, subtitles>>
      ELSE LET o == LoginOutcome(resp, token) IN
           /\ token' = o.token
           /\ headers' = IF o.raised = NoException
                           THEN WithAuthorization(headers, o.token) ELSE headers
           /\ last' = Call("initialize", [response |-> resp], o.raised, RetNone,
                           <<Request("POST", "login", headers)>>)
           /\ UNCHANGED <<closed, use_hash, hash, subtitles>>

\* terminate: self.session.close().  A closed requests session still sends
\* requests (its adapters reconnect), and nothing else is reset.
Terminate ==
    /\ closed' = TRUE
    /\ last' = Call("terminate", [nothing |-> TRUE], NoException, RetNone, <<>>)
    /\ UNCHANGED <<token, headers, use_hash, hash, subtitles>>

(***************************************************************************)
(* search_titles                                                           *)
(***************************************************************************)
\* The 'year' attribute of a search result as the JSON body gives it: a
\* number, a string of decimal digits, or null.
IntYear(n) == [type |-> "int", n |-> n]
StrYear(n) == [type |-> "str", n |-> n]
NullYear == [type |-> "null", n |-> 0]

\* int(year): the number itself, the number a digit string denotes, and a
\* TypeError for None.
IntRaises(y) == y.type = "null"
IntOf(y) == y.n

\* str.lower() on the titles of the model.
Lower(str) ==
    CASE str = "Foo" -> "foo"
      [] str = "FOO" -> "foo"
      [] str = "BAR" -> "bar"
      [] str = "Bar" -> "bar"
      [] OTHER -> str

SearchResult(id, title, year) == [id |-> id, title |-> title, year |-> year]

\* The answer to GET search/tv or search/movie.
SearchResponse(status, valid, data) == [status |-> status, valid |-> valid, data |-> data]

\* The loop over the results from position i on: the title id it ends with
\* and the exception it raised.  'and' evaluates int(...) only when the
\* titles are equal.
RECURSIVE ScanResults(_, _, _, _)
ScanResults(title, video, data, i) ==
    IF i > Len(data)
      THEN [title_id |-> None, raised |-> NoException]
    ELSE IF Lower(title) /= Lower(data[i].title)
      THEN ScanResults(title, video, data, i + 1)
    ELSE IF IntRaises(data[i].year)
      THEN [title_id |-> None, raised |-> "TypeError"]
    ELSE IF video.year = Some(IntOf(data[i].year))
      THEN [title_id |-> Some(data[i].id), raised |-> NoException]
    ELSE ScanResults(title, video, data, i + 1)

\* '%d' % video.year raises TypeError when the year is None.
FormatRaises(year) == year = None

\* search_titles: the exception raised and the value returned.
SearchTitlesOutcome(title, video, resp) ==
    IF RaisesForStatus(resp.status)
      THEN [raised |-> "HTTPError", title_id |-> None]
    ELSE
      LET scan == IF resp.valid
                    THEN ScanResults(title, video, resp.data, 1)
                    \* ValueError is caught and logged
                    ELSE [title_id |-> None, raised |-> NoException]
      IN  IF TruthyStr(scan.title_id)
            THEN [raised |-> NoException, title_id |-> scan.title_id]
          \* finally: the 'no match' message is formatted with %d
          ELSE IF FormatRaises(video.year)
            THEN [raised |-> "TypeError", title_id |-> None]
          ELSE [raised |-> scan.raised, title_id |-> None]

SearchUrl(video) == IF IsEpisode(video) THEN "search/tv" ELSE "search/movie"

RetTitleId(o) == IF o.title_id = None THEN RetNone ELSE RetId(Get(o.title_id))

SearchTitles(title, video, resp) ==
    LET o == SearchTitlesOutcome(title, video, resp) IN
    /\ last' = Call("search_titles", [title |-> title, video |-> video, search |-> resp],
                    o.raised, RetTitleId(o), <<Request("GET", SearchUrl(video), headers)>>)
    /\ UNCHANGED <<token, headers, closed, use_hash, hash, subtitles>>

(***************************************************************************)
(* query                                                                   *)
(***************************************************************************)
\* One entry of the 'data' array of a find response, with the attributes
\* query reads.
FindItem(type, file_id, release, season_number, episode_number) ==
    [type |-> type, language |-> "en", hearing_impaired |-> FALSE,
     url |-> "https://www.opensubtitles.com/s", file_id |-> file_id,
     release |-> release, uploader |-> "up", movie_name |-> "Foo",
     season_number |-> season_number, episode_number |-> episode_number]

\* The answer to GET find/tv or find/movie.
FindResponse(status, valid, data) == [status |-> status, valid |-> valid, data |-> data]

\* The record query builds from one entry: the year is the video's own.
SubtitleOf(item, video) ==
    OpenSubtitlesComSubtitle(item.language, item.hearing_impaired, None, item.url,
        item.file_id, item.release, item.uploader, item.movie_name, video.year,
        IF IsEpisode(video) THEN item.season_number ELSE None,
        IF IsEpisode(video) THEN item.episode_number ELSE None)

\* SubtitleOf with the record left unscored.
UnscoredRecord(item, video) == SubtitleOf(item, video)

\* The record query appends for one entry: built, then scored by get_matches.
QueryRecord(item, video) == ScoredSubtitle(SubtitleOf(item, video), video)

\* The loop over result['data'] from position i on.
RECURSIVE BuildSubtitles(_, _, _)
BuildSubtitles(data, video, i) ==
    IF i > Len(data) THEN <<>>
    ELSE IF data[i].type = "subtitle"
      THEN <<QueryRecord(data[i], video)>> \o BuildSubtitles(data, video, i + 1)
    ELSE BuildSubtitles(data, video, i + 1)

FindUrl(video) == IF IsEpisode(video) THEN "find/tv" ELSE "find/movie"

\* 'if not title_id' proceeding whatever search_titles returned.
NoTitleIdNever(title_id) == FALSE

\* The test 'if not title_id' on what search_titles returned.
NoTitleId(title_id) == ~TruthyStr(title_id)

\* query: the exception raised, the list returned and the requests issued.
QueryOutcome(video, sresp, fresp, h) ==
    LET title == IF IsEpisode(video) THEN Get(video.series) ELSE Get(video.title)
        s == SearchTitlesOutcome(title, video, sresp)
        search == Request("GET", SearchUrl(video), h)
        find == Request("GET", FindUrl(video), h)
    IN  IF s.raised /= NoException
          THEN [raised |-> s.raised, returned |-> FALSE, list |-> <<>>, reqs |-> <<search>>]
        ELSE IF NoTitleId(s.title_id)
          THEN [raised |-> NoException, returned |-> TRUE, list |-> <<>>, reqs |-> <<search>>]
        ELSE IF RaisesForStatus(fresp.status)
          THEN [raised |-> "HTTPError", returned |-> FALSE, list |-> <<>>,
                reqs |-> <<search, find>>]
        ELSE IF ~fresp.valid
          THEN [raised |-> "ValueError", returned |-> FALSE, list |-> <<>>,
                reqs |-> <<search, find>>]
        ELSE [raised |-> NoException, returned |-> TRUE,
              list |-> BuildSubtitles(fresp.data, video, 1), reqs |-> <<search, find>>]

\* query(languages, video).  The joined language tags only parametrize the
\* find request.  The records returned are the ones the caller holds next.
Query(languages, video, sresp, fresp) ==
    LET o == QueryOutcome(video, sresp, fresp, headers) IN
    /\ hash' = IF use_hash THEN video.hashes ELSE hash
    /\ subtitles' = IF o.returned THEN o.list ELSE subtitles
    /\ last' = Call("query",
                    [languages |-> languages, video |-> video, search |-> sresp, find |-> fresp],
                    o.raised, IF o.returned THEN RetList(o.list) ELSE RetNone, o.reqs)
    /\ UNCHANGED <<token, headers, closed, use_hash>>

(***************************************************************************)
(* download_subtitle                                                       *)
(***************************************************************************)
CR == "\r"
LF == "\n"

\* bytes.replace(b'\r\n', b'\n')
RECURSIVE ReplaceCRLF(_)
ReplaceCRLF(b) ==
    IF Len(b) = 0 THEN <<>>
    ELSE IF Len(b) >= 2 /\ b[1] = CR /\ b[2] = LF
      THEN <<LF>> \o ReplaceCRLF(SubSeq(b, 3, Len(b)))
    ELSE <<b[1]>> \o ReplaceCRLF(Tail(b))

\* bytes.replace(b'\r', b'\n')
ReplaceCR(b) == [k \in 1..Len(b) |-> IF b[k] = CR THEN LF ELSE b[k]]

\* fix_line_ending: every line ending becomes \n.
FixLineEnding(b) == ReplaceCR(ReplaceCRLF(b))

\* The answer to POST download: the JSON body holds a link or not.
DownloadResponse(status, valid, link) == [status |-> status, valid |-> valid, link |-> link]

\* The answer to GET <link>: the raw body.
LinkResponse(status, content) == [status |-> status, content |-> content]

\* The body stored whatever its length.
StoresContentAlways(content) == TRUE

\* 'if subtitle_content': an empty body is not stored.
StoresContent(content) == content /= <<>>

\* download_subtitle: the record afterwards, the exception raised and the
\* requests issued.
DownloadOutcome(subtitle, presp, gresp, h) ==
    LET post == Request("POST", "download", h)
        linked == [subtitle EXCEPT !.download_link = presp.link]
        get == Request("GET", "link", h)
    IN  IF RaisesForStatus(presp.status)
          THEN [subtitle |-> subtitle, raised |-> "HTTPError", reqs |-> <<post>>]
        ELSE IF ~presp.valid
          THEN [subtitle |-> subtitle, raised |-> "ValueError", reqs |-> <<post>>]
        ELSE IF presp.link = None
          THEN [subtitle |-> subtitle, raised |-> "KeyError", reqs |-> <<post>>]
        ELSE IF RaisesForStatus(gresp.status)
          THEN [subtitle |-> linked, raised |-> "HTTPError", reqs |-> <<post, get>>]
        ELSE IF StoresContent(gresp.content)
          THEN [subtitle |-> [linked EXCEPT !.content = Some(FixLineEnding(gresp.content))],
                raised |-> NoException, reqs |-> <<post, get>>]
        ELSE [subtitle |-> linked, raised |-> NoException, reqs |-> <<post, get>>]

\* download_subtitle(subtitle) on the i-th record the caller holds.
DownloadSubtitle(i, presp, gresp) ==
    LET o == DownloadOutcome(subtitles[i], presp, gresp, headers) IN
    /\ i \in 1..Len(subtitles)
    /\ subtitles' = [subtitles EXCEPT ![i] = o.subtitle]
    /\ last' = Call("download_subtitle",
                    [index |-> i, before |-> subtitles[i], download |-> presp, link |-> gresp],
                    o.raised, RetNone, o.reqs)
    /\ UNCHANGED <<token, headers, closed, use_hash, hash>>

(***************************************************************************)
(* get_matches on a record the caller built                                *)
(***************************************************************************)
\* The caller builds a record (OpenSubtitlesComSubtitle.__init__).
NewSubtitle(releases, year, season, episode) ==
    /\ subtitles' = <<OpenSubtitlesComSubtitle("en", FALSE, None,
                        "https://www.opensubtitles.com/s", "f1", releases, "up",
                        "Foo", year, season, episode)>>
    /\ last' = Call("OpenSubtitlesComSubtitle", [releases |-> releases], NoException,
                    RetNone, <<>>)
    /\ UNCHANGED <<token, headers, closed, use_hash, hash>>

\* subtitle.get_matches(video) on the i-th record the caller holds.
GetMatches(i, video) ==
    /\ i \in 1..Len(subtitles)
    /\ subtitles' = [subtitles EXCEPT ![i] = ScoredSubtitle(subtitles[i], video)]
    /\ last' = Call("get_matches", [index |-> i, video |-> video], NoException,
                    [tags |-> GetMatchTags(subtitles[i], video)], <<>>)
    /\ UNCHANGED <<token, headers, closed, use_hash, hash>>

(***************************************************************************)
(* The provider's life: any calls in any order, on a few answers of each   *)
(* kind.                                                                   *)
(***************************************************************************)
LifeLogins ==
    { LoginFailure,
      LoginResponse(200, TRUE, Some("abc")), LoginResponse(200, TRUE, Some("xyz")),
      LoginResponse(200, TRUE, None), LoginResponse(200, FALSE, None),
      LoginResponse(401, TRUE, None), LoginResponse(401, TRUE, Some("abc")),
      LoginResponse(500, FALSE, None) }

LifeVideos ==
    { Movie("Foo", Some(2021), NoRelease),
      Episode("Foo", Some(2021), Some(1), Some(2), FullRelease) }

LifeSearches ==
    { SearchResponse(200, TRUE, <<SearchResult("1", "foo", IntYear(2021))>>),
      SearchResponse(200, TRUE, <<>>),
      SearchResponse(500, FALSE, <<>>) }

LifeFinds ==
    { FindResponse(200, TRUE, <<FindItem("subtitle", "f1", {"grp", "720p"}, Some(1), Some(2))>>),
      FindResponse(404, FALSE, <<>>) }

LifeDownloads == { DownloadResponse(200, TRUE, Some("l1")), DownloadResponse(500, FALSE, None) }

LifeLinks == { LinkResponse(200, <<"a", CR>>), LinkResponse(200, <<>>) }

Languages == {"en"}

Init ==
    /\ Constructed
    /\ last = Call("__init__", [nothing |-> TRUE], NoException, RetNone, <<>>)

Next ==
    \/ \E resp \in LifeLogins : Initialize(resp)
    \/ \E resp \in LifeLogins : Login(resp)
    \/ Terminate
    \/ \E video \in LifeVideos, resp \in LifeSearches : SearchTitles("Foo", video, resp)
    \/ \E video \in LifeVideos, sresp \in LifeSearches, fresp \in LifeFinds :
          Query(Languages, video, sresp, fresp)
    \/ \E presp \in LifeDownloads, gresp \in LifeLinks : DownloadSubtitle(1, presp, gresp)

Spec == Init /\ [][Next]_vars

(***************************************************************************)
(* search_titles on every response up to MaxResults results: the call is   *)
(* set up with its arguments, then made.                                   *)
(***************************************************************************)
SearchEntries ==
    { SearchResult(id, title, year) :
        id \in {"1", "2"}, title \in {"FOO", "Bar"},
        year \in {IntYear(2020), IntYear(2021), StrYear(2021), NullYear} }

SearchResponses ==
    { SearchResponse(200, TRUE, data) : data \in SeqUpTo(SearchEntries, MaxResults) }
    \cup { SearchResponse(200, FALSE, <<>>), SearchResponse(204, TRUE, <<>>),
           SearchResponse(404, FALSE, <<>>) }

SearchVideos ==
    { Movie("Foo", year, NoRelease) : year \in Years }
    \cup { Episode("Foo", year, Some(1), Some(2), FullRelease) : year \in Years }

InitSearch ==
    /\ Constructed
    /\ \E video \in SearchVideos, resp \in SearchResponses :
          last = Pending("search_titles", [title |-> "Foo", video |-> video, search |-> resp])

CallSearchTitles ==
    /\ ~last.made
    /\ SearchTitles(last.args.title, last.args.video, last.args.search)

NextSearch == CallSearchTitles

SpecSearch == InitSearch /\ [][NextSearch]_vars

(***************************************************************************)
(* query on every find response up to MaxItems entries.                    *)
(***************************************************************************)
QuerySearches ==
    { SearchResponse(200, TRUE, <<SearchResult("1", "FOO", IntYear(2020)),
                                  SearchResult("2", "FOO", IntYear(2021))>>),
      SearchResponse(200, TRUE, <<SearchResult("1", "Bar", IntYear(2021))>>),
      SearchResponse(200, FALSE, <<>>),
      SearchResponse(404, FALSE, <<>>) }

QueryItems ==
    { FindItem(type, "f1", release, season_number, Some(2)) :
        type \in {"subtitle", "other"}, release \in {{}, {"grp", "720p", "2021"}},
        season_number \in {None, Some(1)} }

QueryFinds ==
    { FindResponse(200, TRUE, data) : data \in SeqUpTo(QueryItems, MaxItems) }
    \cup { FindResponse(200, FALSE, <<>>), FindResponse(500, FALSE, <<>>) }

InitQuery ==
    /\ Constructed
    /\ \E video \in SearchVideos, sresp \in QuerySearches, fresp \in QueryFinds :
          last = Pending("query", [languages |-> Languages, video |-> video,
                                   search |-> sresp, find |-> fresp])

CallQuery ==
    /\ ~last.made
    /\ Query(last.args.languages, last.args.video, last.args.search, last.args.find)

NextQuery == CallQuery

SpecQuery == InitQuery /\ [][NextQuery]_vars

(***************************************************************************)
(* download_subtitle, again and again, on a record query returned, with    *)
(* every body up to MaxBody bytes.                                         *)
(***************************************************************************)
Bytes == {"a", CR, LF}

DownloadResponses ==
    { DownloadResponse(200, TRUE, Some("l1")), DownloadResponse(200, TRUE, None),
      DownloadResponse(200, FALSE, None), DownloadResponse(404, FALSE, None) }

LinkResponses ==
    { LinkResponse(200, body) : body \in SeqUpTo(Bytes, MaxBody) }
    \cup { LinkResponse(404, <<"a">>), LinkResponse(500, <<>>) }

\* The caller holds one record that query returned for a movie.
InitDownload ==
    /\ token = None /\ headers = InitialHeaders /\ closed = FALSE
    /\ use_hash \in BOOLEAN /\ hash = None
    /\ subtitles = <<QueryRecord(FindItem("subtitle", "f1", {"grp", "720p"}, None, None),
                                 Movie("Foo", Some(2021), NoRelease))>>
    /\ last = Call("__init__", [nothing |-> TRUE], NoException, RetNone, <<>>)

NextDownload ==
    \E presp \in DownloadResponses, gresp \in LinkResponses : DownloadSubtitle(1, presp, gresp)

SpecDownload == InitDownload /\ [][NextDownload]_vars

(***************************************************************************)
(* get_matches on records the caller builds, against every video.          *)
(***************************************************************************)
MatchReleases == {{}, {"grp", "720p", "web"}, {"2021"}}

MatchVideos ==
    { Movie("Foo", year, rel) : year \in Years, rel \in VideoReleases }
    \cup { Episode("Foo", year, season, episode, rel) :
             year \in Years, season \in Numbers, episode \in Numbers, rel \in VideoReleases }

NextMatches ==
    \/ \E releases \in MatchReleases, year \in Years, season \in Numbers, episode \in Numbers :
          NewSubtitle(releases, year, season, episode)
    \/ \E video \in MatchVideos : GetMatches(1, video)

SpecMatches == Init /\ [][NextMatches]_vars

(***************************************************************************)
(* Properties                                                              *)
(***************************************************************************)
\* A call of login, directly or from initialize, that sent the login
\* request and got resp for an answer.
LoginAnswered(call) ==
    /\ call.made
    /\ call.op \in {"login", "initialize"}
    /\ call.reqs /= <<>>

Is2xx(status) == status >= 200 /\ status < 300

\* C1: when the login endpoint answers HTTP 401, login() (and initialize()
\* called with no cached token) fails with an authentication error that
\* reaches the caller, and the token stays unset.
C1_Login401Raises ==
    (LoginAnswered(last) /\ ~last.args.response.failed /\ last.args.response.status = 401)
        => /\ last.raised = "AuthenticationError"
           /\ (last.op = "initialize" => token = None)

\* C2: whenever a token is cached, every request issued for search, find or
\* download carries an Authorization header equal to that token.
C2_RequestsCarryToken ==
    (last.made /\ TruthyStr(token))
        => \A k \in DOMAIN last.reqs :
              last.reqs[k].url /= "login" => last.reqs[k].auth = token

\* C3: the token starts unset and changes only in a login that was answered
\* with HTTP 200 and a body holding a token, to that token; a login ending
\* in a network failure, HTTP 401, another status or an unusable body, and
\* every other operation, leaves the token as it was.
C3_TokenOnlyFromLogin200 ==
    [][ IF LoginAnswered(last')
             /\ ~last'.args.response.failed
             /\ last'.args.response.status = 200
             /\ last'.args.response.valid
             /\ last'.args.response.token /= None
          THEN token' = last'.args.response.token
          ELSE token' = token ]_vars

\* C3 (witness): a login answered 401, whose body even held a token, left a
\* token cached by an earlier login as it was.
C3_Witness ==
    /\ last.made /\ last.op = "login"
    /\ last.args.response.status = 401
    /\ last.args.response.token = Some("abc")
    /\ token = Some("xyz")

\* C4: initialize() with a token cached returns at once: it issues no login
\* request and leaves the token, the session headers and everything else as
\* they were, so a second initialize() changes nothing.
C4_InitializeIdempotent ==
    [][ (last'.op = "initialize" /\ TruthyStr(token))
          => /\ last'.reqs = <<>>
             /\ last'.raised = NoException
             /\ UNCHANGED <<token, headers, closed, use_hash, hash, subtitles>> ]_vars

\* C4 (witness): initialize() returned at once with a token cached and the
\* header set by the first initialize().
C4_Witness ==
    /\ last.made /\ last.op = "initialize"
    /\ last.ret = RetBool(TRUE) /\ last.reqs = <<>>
    /\ TruthyStr(token) /\ SentAuthorization(headers) = token

\* The entries of data that match: same title whatever the case, same year.
MatchingPositions(title, video, data) ==
    { k \in DOMAIN data :
        /\ Lower(data[k].title) = Lower(title)
        /\ data[k].year.type /= "null"
        /\ video.year = Some(data[k].year.n) }

\* C5: for every 2xx search response and every video, also one with no
\* year, search_titles returns the id of the first entry whose title equals
\* the queried title case-insensitively and whose year equals the video's,
\* and returns no match, without raising, when there is none or the body
\* cannot be parsed.
C5_SearchTitlesFirstMatch ==
    (last.made /\ last.op = "search_titles" /\ Is2xx(last.args.search.status))
        => LET a == last.args
               m == IF a.search.valid
                      THEN MatchingPositions(a.title, a.video, a.search.data) ELSE {}
           IN  /\ last.raised = NoException
               /\ last.ret = IF m = {} THEN RetNone
                             ELSE RetId(a.search.data[CHOOSE k \in m : \A j \in m : k <= j].id)

\* search_titles, as query calls it, returned without a title id.
FoundNoTitleId(call) ==
    LET v == call.args.video
        o == SearchTitlesOutcome(IF IsEpisode(v) THEN Get(v.series) ELSE Get(v.title),
                                 v, call.args.search)
    IN  o.raised = NoException /\ o.title_id = None

\* C6: when search_titles finds no title id, query returns an empty list at
\* once: the search request is the only one issued and no record is built.
C6_NoTitleIdNoFind ==
    (last.made /\ last.op = "query" /\ FoundNoTitleId(last))
        => /\ last.raised = NoException
           /\ last.ret = RetList(<<>>)
           /\ Len(last.reqs) = 1
           /\ last.reqs[1].url = SearchUrl(last.args.video)
           /\ subtitles = <<>>

\* C6 (witness): no title id was found although the find endpoint would have
\* answered with a subtitle entry.
C6_Witness ==
    /\ last.made /\ last.op = "query" /\ FoundNoTitleId(last)
    /\ last.args.find.status = 200 /\ last.args.find.valid
    /\ \E k \in DOMAIN last.args.find.data : last.args.find.data[k].type = "subtitle"
    /\ last.ret = RetList(<<>>)

\* Both requests of a download succeeded: no error status, and the answer to
\* the POST held a link.
DownloadSucceeded(a) ==
    /\ ~RaisesForStatus(a.download.status) /\ a.download.valid /\ a.download.link /= None
    /\ ~RaisesForStatus(a.link.status)

\* C7: download_subtitle sets the record's content to the body with its line
\* endings normalized when both requests succeed and the body is non-empty;
\* when the body is empty or a request fails, the content is left as it was
\* (unset, on a record never downloaded before).
C7_DownloadContent ==
    (last.made /\ last.op = "download_subtitle")
        => LET a == last.args
               now == subtitles[a.index].content
           IN  IF DownloadSucceeded(a) /\ a.link.content /= <<>>
                 THEN /\ now = Some(FixLineEnding(a.link.content))
                      /\ \A k \in DOMAIN Get(now) : Get(now)[k] /= CR
                 ELSE /\ now = a.before.content
                      /\ (a.before.download_link = None /\ a.before.content = None => now = None)

\* C7 (witness): a body with a carriage return was downloaded and stored
\* normalized.
C7_Witness ==
    /\ last.made /\ last.op = "download_subtitle"
    /\ DownloadSucceeded(last.args)
    /\ last.args.link.content = <<CR, LF>>
    /\ subtitles[1].content = Some(<<LF>>)

\* The fields get_matches compares for the video: the year, and for an
\* episode the season and the episode.
ComparedFields(video) ==
    IF IsEpisode(video) THEN {"year", "season", "episode"}
    ELSE IF IsMovie(video) THEN {"year"} ELSE {}

\* The tags the guess of the release string contributes for the video.
GuessedTags(sub, video) == GuessMatches(video, Guessit(sub.releases))

\* The field f of a record: a subtitle's or a video's.
Field(r, f) == CASE f = "year" -> r.year [] f = "season" -> r.season [] OTHER -> r.episode

\* C8 (as claimed): 'year', 'season' and 'episode' are added if and only if
\* the subtitle's field equals the video's, and a field absent on either
\* side adds no tag (tags guessed out of the release string apart).
C8_TagIffPresentAndEqual ==
    (last.made /\ last.op = "get_matches")
        => LET sub == subtitles[last.args.index]
               video == last.args.video
           IN  \A f \in {"year", "season", "episode"} :
                  f \in Get(sub.matches)
                    <=> \/ /\ f \in ComparedFields(video)
                           /\ Field(video, f) /= None /\ Field(sub, f) /= None
                           /\ Field(video, f) = Field(sub, f)
                        \/ f \in GuessedTags(sub, video)

\* C8 (amended): 'year', 'season' and 'episode' are added if and only if
\* the subtitle's field equals the video's under ==: a field absent on one
\* side only adds no tag, a field absent on both sides adds it (tags
\* guessed out of the release string apart).
C8_TagIffEqual ==
    (last.made /\ last.op = "get_matches")
        => LET sub == subtitles[last.args.index]
               video == last.args.video
           IN  /\ last.ret.tags = Get(sub.matches)
               /\ \A f \in {"year", "season", "episode"} :
                     f \in Get(sub.matches)
                       <=> \/ f \in ComparedFields(video) /\ Field(video, f) = Field(sub, f)
                           \/ f \in GuessedTags(sub, video)

\* C8 (witness): an episode with no year and no season scored against a
\* subtitle with neither got both tags, and not 'episode', which differs.
C8_Witness ==
    /\ last.made /\ last.op = "get_matches"
    /\ IsEpisode(last.args.video)
    /\ last.args.video.year = None /\ subtitles[1].year = None
    /\ last.args.video.season = None /\ subtitles[1].season = None
    /\ last.args.video.episode = Some(1) /\ subtitles[1].episode = None
    /\ subtitles[1].matches = Some({"series", "year", "season"})

\* C9: the lifecycle only advances uninitialized -> authenticated -> closed:
\* authenticated is entered only by a successful login before terminate,
\* closed only by terminate, and after terminate no operation makes the
\* provider authenticated or issues a request carrying a token.
C9_LifecycleOnlyAdvances ==
    [][ /\ closed => closed'
        /\ (~closed /\ closed') => last'.op = "terminate"
        /\ TruthyStr(token) => TruthyStr(token')
        /\ (~TruthyStr(token) /\ TruthyStr(token')) => (~closed /\ LoginAnswered(last'))
        /\ closed => \A k \in DOMAIN last'.reqs : ~TruthyStr(last'.reqs[k].auth) ]_vars

\* C10: every record query returns for an episode or a movie has its match
\* set populated, and the set holds 'year'.
C10_QueryRecordsMatchYear ==
    (last.made /\ last.op = "query" /\ last.raised = NoException)
        => /\ subtitles = last.ret.list
           /\ \A k \in DOMAIN subtitles :
                 /\ subtitles[k].matches /= None
                 /\ "year" \in Get(subtitles[k].matches)
                 /\ subtitles[k].year = last.args.video.year

\* C10 (witness): query returned two records for a 2020 episode, one of them
\* with a release string that names another year and a season the server
\* left out.
C10_Witness ==
    /\ last.made /\ last.op = "query" /\ last.raised = NoException
    /\ IsEpisode(last.args.video) /\ last.args.video.year = Some(2020)
    /\ Len(subtitles) = 2
    /\ subtitles[1].releases = {"grp", "720p", "2021"} /\ subtitles[1].season = None
    /\ "year" \in Get(subtitles[1].matches) /\ "year" \in Get(subtitles[2].matches)

=============================================================================
